---- MODULE Spec2Model ----
(***************************************************************************)
(* ShortestPathGame (src/shortestpath.py): a tkinter grid on which the     *)
(* user paints obstacles, right-clicks a start and an end cell and presses *)
(* Return to run an A* search that colours the cells it expands and the    *)
(* path it finds.                                                          *)
(*                                                                         *)
(* The state is the game object's fields (grid_size, the canvas fill of    *)
(* every cell, start, end, visited_cells) and the call stack of the        *)
(* find_shortest_path invocations in flight: the search loop calls         *)
(* window.update(), which dispatches pending UI events from inside the     *)
(* loop, so handlers (a second Return included) can run between two        *)
(* iterations of a search.                                                 *)
(***************************************************************************)
EXTENDS Integers, Sequences, FiniteSets, TLC

(* ---------------- bounds of the model ---------------- *)

\* the side of the grid the game is constructed with (10..50 in the program's
\* size picker); the searches that need more room run on a grid of side N + 1
N == 3

\* at most this many cells are Obstacle-coloured at a time
MaxObstacles == 2

\* at most this many find_shortest_path invocations are nested
MaxDepth == 2

\* at most this many events are dispatched by window.update(), from inside a
\* search, between two resets of the board (Clear All from the main loop, Restart)
MaxDispatched == 1

(* ---------------- state ---------------- *)

VARIABLES
  grid_size,       \* self.grid_size: the side of the grid
  fill,            \* canvas fill colour of the rectangle of every cell
  start,           \* self.start: a cell or None
  end,             \* self.end: a cell or None
  visited_cells,   \* self.visited_cells
  stack,           \* find_shortest_path invocations in flight, innermost last
  dispatched,      \* events window.update() dispatched since the board was reset
  outcome          \* how the last returned invocation ended, for the current grid

(* ---------------- program constants ---------------- *)

CELL_SIZE == 30
BORDER_WIDTH == 50
MAX_WINDOW_SIZE == 700

EMPTY_COLOR == "white"
OBSTACLE_COLOR == "black"
START_COLOR == "green"
END_COLOR == "red"
PATH_COLOR == "yellow"
VISITED_COLOR == "lightgray"

\* Python's None (start and end before they are set)
None == <<>>

\* float("inf"): larger than every g-score a search can reach
Inf == grid_size * grid_size + 1

\* self.cell_size as __init__ computes it
cell_size ==
  IF grid_size * CELL_SIZE + 2 * BORDER_WIDTH > MAX_WINDOW_SIZE
    THEN (MAX_WINDOW_SIZE - 2 * BORDER_WIDTH) \div grid_size
    ELSE CELL_SIZE

Cells == (0 .. grid_size - 1) \X (0 .. grid_size - 1)

\* event.x / event.y: the last pixel of every row and column of cells
GridPixels == {BORDER_WIDTH + k * cell_size + (cell_size - 1) : k \in 0 .. grid_size - 1}

\* one pixel in the border before the grid and one after it
BorderPixels == {BORDER_WIDTH - 1, BORDER_WIDTH + grid_size * cell_size}

\* the (event.x, event.y) of the pointer events: every cell, and clicks left of,
\* right of, above and below the grid
Clicks ==
  (GridPixels \X GridPixels)
    \cup (BorderPixels \X {BORDER_WIDTH})
    \cup ({BORDER_WIDTH} \X BorderPixels)

\* (event.x - BORDER_WIDTH) // self.cell_size
CellIndex(p) == (p - BORDER_WIDTH) \div cell_size

InGrid(row, col) == 0 <= row /\ row < grid_size /\ 0 <= col /\ col < grid_size

(* ---------------- state: derived sets and initial state ---------------- *)

vars == <<grid_size, fill, start, end, visited_cells, stack, dispatched, outcome>>

Obstacles == {c \in Cells : fill[c] = OBSTACLE_COLOR}

NoOutcome == [events |-> <<>>, path |-> <<>>, trace |-> <<>>]

\* the values of the fields of the game and of the locals of an invocation
TypeOK ==
  /\ grid_size \in {N, N + 1}
  /\ fill \in [Cells -> {EMPTY_COLOR, OBSTACLE_COLOR, START_COLOR, END_COLOR,
                         PATH_COLOR, VISITED_COLOR}]
  /\ start \in Cells \cup {None}
  /\ end \in Cells \cup {None}
  /\ visited_cells \subseteq Cells
  /\ dispatched \in 0 .. MaxDispatched
  /\ Len(stack) <= MaxDepth
  /\ \A i \in 1 .. Len(stack) :
       /\ stack[i].pc \in {"loop", "update"}
       /\ stack[i].visited \subseteq Cells
       /\ DOMAIN stack[i].g_score \subseteq Cells
       /\ \A k \in 1 .. Len(stack[i].open_set) :
            /\ <<stack[i].open_set[k][2], stack[i].open_set[k][3]>> \in Cells
            /\ stack[i].open_set[k][1] \in 0 .. Inf

\* __init__(grid_size) and create_grid(): no invocation is in flight
Construct(size) ==
  /\ grid_size = size
  /\ fill = [c \in Cells |-> EMPTY_COLOR]
  /\ start = None
  /\ end = None
  /\ visited_cells = {}
  /\ stack = <<>>
  /\ dispatched = 0
  /\ outcome = NoOutcome

Init == Construct(N)

\* the game on a grid one cell wider
InitWider == Construct(N + 1)

(* ---------------- the A* search: pure parts ---------------- *)

Abs(x) == IF x < 0 THEN -x ELSE x

\* heuristic(current, goal): Manhattan distance
heuristic(current, goal) == Abs(current[1] - goal[1]) + Abs(current[2] - goal[2])

\* a test of neighbors() that lets only the empty cells through
TraversableEmptyOnly(c) == fill[c] = EMPTY_COLOR

\* the test of neighbors(): the canvas fill of the cell is not the obstacle colour
Traversable(c) == fill[c] # OBSTACLE_COLOR

\* neighbors() with a diagonal step in place of the step to the right
NeighborsDiagonal(row, col) ==
  SelectSeq(<<<<row - 1, col>>, <<row + 1, col>>, <<row, col - 1>>, <<row + 1, col + 1>>>>,
            LAMBDA c : InGrid(c[1], c[2]) /\ Traversable(c))

\* neighbors(row, col): up, down, left, right, in bounds and not Obstacle-coloured
Neighbors(row, col) ==
  SelectSeq(<<<<row - 1, col>>, <<row + 1, col>>, <<row, col - 1>>, <<row, col + 1>>>>,
            LAMBDA c : InGrid(c[1], c[2]) /\ Traversable(c))

\* Python's order on (row, col) tuples
CellLess(a, b) == a[1] < b[1] \/ (a[1] = b[1] /\ a[2] < b[2])

\* Python's order on lists of (row, col) tuples
RECURSIVE PathLess(_, _)
PathLess(p, q) ==
  IF q = <<>> THEN FALSE
  ELSE IF p = <<>> THEN TRUE
  ELSE IF Head(p) = Head(q) THEN PathLess(Tail(p), Tail(q))
  ELSE CellLess(Head(p), Head(q))

\* a queue that returns the entry with the largest f first
EntryMore(a, b) == a[1] > b[1]

\* the order of a stable queue: by f alone, so that put() places an entry behind
\* the entries of the same f
EntryLessByF(a, b) == a[1] < b[1]

\* the order of a queue whose entries are built as (row, col, f, path)
EntryLessByCell(a, b) ==
  \/ a[2] < b[2]
  \/ a[2] = b[2] /\ a[3] < b[3]
  \/ a[2] = b[2] /\ a[3] = b[3] /\ a[1] < b[1]

\* the order of the PriorityQueue: Python's order on (f, row, col, path) tuples
EntryLess(a, b) ==
  \/ a[1] < b[1]
  \/ a[1] = b[1] /\ a[2] < b[2]
  \/ a[1] = b[1] /\ a[2] = b[2] /\ a[3] < b[3]
  \/ a[1] = b[1] /\ a[2] = b[2] /\ a[3] = b[3] /\ PathLess(a[4], b[4])

\* open_set.put(e): open_set is kept as the sequence in which get() returns its entries
Put(q, e) ==
  LET k == Cardinality({i \in 1 .. Len(q) : ~EntryLess(e, q[i])})
  IN  SubSeq(q, 1, k) \o <<e>> \o SubSeq(q, k + 1, Len(q))

\* g_score.get(c, float("inf"))
GetG(g, c) == IF c \in DOMAIN g THEN g[c] ELSE Inf

\* g_score[c] = v
SetG(g, c, v) == [k \in DOMAIN g \cup {c} |-> IF k = c THEN v ELSE g[k]]

\* a relaxation that only takes cells that have no g-score yet
ImprovesUnseen(temp, old) == old = Inf

\* the test of a relaxation: temp_g_score < g_score.get((r, c), inf)
Improves(temp, old) == temp < old

\* the body of "for r, c in neighbors(row, col)" for one neighbour c of the popped
\* cell of frame fr; heuristic() raises TypeError when self.end is None
RelaxOne(fr, c) ==
  LET temp == GetG(fr.g_score, <<fr.row, fr.col>>) + 1
  IN  IF ~Improves(temp, GetG(fr.g_score, c)) THEN fr
      ELSE IF end = None
        THEN [fr EXCEPT !.g_score = SetG(@, c, temp), !.pc = "raise"]
        ELSE LET e == <<temp + heuristic(c, end), c[1], c[2], Append(fr.path, c)>>
             IN  [fr EXCEPT !.g_score = SetG(@, c, temp),
                            !.open_set = Put(@, e),
                            !.pushed = Append(@, e)]

\* the whole for-loop over the neighbours, stopping at an exception (the frame
\* after one neighbour is bound to x, so that it is computed once)
RECURSIVE RelaxAll(_, _)
RelaxAll(fr, nbrs) ==
  IF nbrs = <<>> \/ fr.pc = "raise" THEN fr
  ELSE CHOOSE r \in {RelaxAll(x, Tail(nbrs)) : x \in {RelaxOne(fr, Head(nbrs))}} : TRUE

\* a guard that fails only when both endpoints are missing
MissingBothEndpoints == start = None /\ end = None

\* "if not self.start or not self.end"
MissingEndpoint == start = None \/ end = None

\* a loop without the test of visited
StaleNever(fr, cell) == FALSE

\* "if (row, col) in visited: continue"
Stale(fr, cell) == cell \in fr.visited

\* a test that spares the start cell only
RecolourableNotStart(cell) == cell # start

\* "(row, col) != self.start and (row, col) != self.end": the cells a search recolours
Recolourable(cell) == cell # start /\ cell # end

\* an end test with row and column exchanged
AtEndTransposed(cell) == cell = <<end[2], end[1]>>

\* an end test that never holds for the start cell
AtEndNotStart(cell) == cell = end /\ cell # start

\* "if (row, col) == self.end"
AtEnd(cell) == IF end = None THEN FALSE ELSE cell = end

\* a path colouring without the test for start and end
ColourPathEveryCell(path) ==
  [c \in Cells |->
     IF \E i \in 1 .. Len(path) : path[i] = c THEN PATH_COLOR ELSE fill[c]]

\* the path colouring on reaching end
ColourPath(path) ==
  [c \in Cells |->
     IF (\E i \in 1 .. Len(path) : path[i] = c) /\ Recolourable(c)
       THEN PATH_COLOR ELSE fill[c]]

\* an invocation that goes on with its loop after it coloured the path
PathFoundNoReturn(fr) ==
  [fr EXCEPT !.events = Append(@, "found"), !.reported = fr.path]

\* the frame of an invocation after it coloured the path: it returns
PathFound(fr) ==
  [fr EXCEPT !.events = Append(@, "found"), !.reported = fr.path, !.pc = "return"]

\* the locals of find_shortest_path before its loop, and the record of what the
\* invocation did: the cells it finalized (trace) with the f of their entries
\* (f_trace), the cells of the entries it discarded (discarded), the entries it
\* put in the queue, in the order of the puts (pushed), and its messages (events)
NewFrame ==
  [open_set |-> <<<<0, start[1], start[2], <<>>>>>>,
   g_score  |-> [c \in {start} |-> 0],
   visited  |-> {},
   pc       |-> "loop",
   row      |-> start[1],
   col      |-> start[2],
   path     |-> <<>>,
   events   |-> <<>>,
   reported |-> <<>>,
   trace    |-> <<>>,
   f_trace  |-> <<>>,
   discarded |-> <<>>,
   pushed   |-> <<<<0, start[1], start[2], <<>>>>>>]

Top == stack[Len(stack)]

SetTop(fr) == [stack EXCEPT ![Len(stack)] = fr]

\* what an invocation leaves behind when it returns or raises
OutcomeOf(fr) ==
  [events |-> IF fr.pc = "raise" THEN Append(fr.events, "error") ELSE fr.events,
   path   |-> fr.reported,
   trace  |-> fr.trace]

(* ---------------- event handlers ---------------- *)

\* events are dispatched by mainloop() when no search runs, and by the
\* window.update() call inside the loop of the innermost search
Idle == stack = <<>>

Dispatching ==
  IF Idle THEN TRUE ELSE Top.pc = "update" /\ dispatched < MaxDispatched

\* the handler that runs was dispatched by mainloop() or by window.update()
Dispatched == dispatched' = IF Idle THEN dispatched ELSE dispatched + 1

\* a condition without the test of visited_cells
CanPaintVisited(row, col) ==
  /\ InGrid(row, col)
  /\ <<row, col>> # start
  /\ <<row, col>> # end

\* the condition of add_obstacle
CanPaint(row, col) ==
  /\ InGrid(row, col)
  /\ <<row, col>> # start
  /\ <<row, col>> # end
  /\ <<row, col>> \notin visited_cells

\* the model paints a new obstacle only while fewer than MaxObstacles cells are obstacles
WithinObstacleBound(row, col) ==
  IF InGrid(row, col) /\ fill[<<row, col>>] # OBSTACLE_COLOR
    THEN Cardinality(Obstacles) < MaxObstacles
    ELSE TRUE

\* add_obstacle(event)
add_obstacle(x, y) ==
  LET col == CellIndex(x)
      row == CellIndex(y)
  IN  /\ WithinObstacleBound(row, col)
      /\ IF CanPaint(row, col)
           THEN /\ fill' = [fill EXCEPT ![<<row, col>>] = OBSTACLE_COLOR]
                /\ outcome' = IF fill[<<row, col>>] = OBSTACLE_COLOR THEN outcome ELSE NoOutcome
           ELSE UNCHANGED <<fill, outcome>>

\* start_drawing(event), <Button-1>, and draw_obstacle(event), <B1-Motion>: both
\* call add_obstacle(event). self.drawing only gates the call from draw_obstacle
\* and start_drawing calls it unconditionally, so the flag does not restrict the
\* calls of add_obstacle and is not part of the state
AddObstacle ==
  /\ Dispatching
  /\ Dispatched
  /\ \E <<x, y>> \in Clicks : add_obstacle(x, y)
  /\ UNCHANGED <<grid_size, start, end, visited_cells, stack>>

\* a set_start_or_end that leaves the colour of an obstacle cell as it is
SetStartOrEndKeepsObstacle ==
  /\ Dispatching
  /\ Dispatched
  /\ \E <<x, y>> \in Clicks :
       LET col == CellIndex(x)
           row == CellIndex(y)
       IN  IF InGrid(row, col) /\ start = None
             THEN /\ start' = <<row, col>>
                  /\ fill' = IF fill[<<row, col>>] = OBSTACLE_COLOR THEN fill
                             ELSE [fill EXCEPT ![<<row, col>>] = START_COLOR]
                  /\ outcome' = NoOutcome
                  /\ UNCHANGED end
           ELSE IF InGrid(row, col) /\ end = None
             THEN /\ end' = <<row, col>>
                  /\ fill' = IF fill[<<row, col>>] = OBSTACLE_COLOR THEN fill
                             ELSE [fill EXCEPT ![<<row, col>>] = END_COLOR]
                  /\ outcome' = NoOutcome
                  /\ UNCHANGED start
           ELSE UNCHANGED <<fill, start, end, outcome>>
  /\ UNCHANGED <<grid_size, visited_cells, stack>>

\* a set_start_or_end whose second branch is a plain else: once start is set,
\* every right-click designates end
SetStartOrEndMovesEnd ==
  /\ Dispatching
  /\ Dispatched
  /\ \E <<x, y>> \in Clicks :
       LET col == CellIndex(x)
           row == CellIndex(y)
       IN  IF InGrid(row, col) /\ start = None
             THEN /\ start' = <<row, col>>
                  /\ fill' = [fill EXCEPT ![<<row, col>>] = START_COLOR]
                  /\ outcome' = NoOutcome
                  /\ UNCHANGED end
           ELSE IF InGrid(row, col)
             THEN /\ end' = <<row, col>>
                  /\ fill' = [fill EXCEPT ![<<row, col>>] = END_COLOR]
                  /\ outcome' = NoOutcome
                  /\ UNCHANGED start
           ELSE UNCHANGED <<fill, start, end, outcome>>
  /\ UNCHANGED <<grid_size, visited_cells, stack>>

\* set_start_or_end(event): <Button-3>
SetStartOrEnd ==
  /\ Dispatching
  /\ Dispatched
  /\ \E <<x, y>> \in Clicks :
       LET col == CellIndex(x)
           row == CellIndex(y)
       IN  IF InGrid(row, col) /\ start = None
             THEN /\ start' = <<row, col>>
                  /\ fill' = [fill EXCEPT ![<<row, col>>] = START_COLOR]
                  /\ outcome' = NoOutcome
                  /\ UNCHANGED end
           ELSE IF InGrid(row, col) /\ end = None
             THEN /\ end' = <<row, col>>
                  /\ fill' = [fill EXCEPT ![<<row, col>>] = END_COLOR]
                  /\ outcome' = NoOutcome
                  /\ UNCHANGED start
           ELSE UNCHANGED <<fill, start, end, outcome>>
  /\ UNCHANGED <<grid_size, visited_cells, stack>>

\* a clear_all that forgets to empty visited_cells
ClearAllKeepsVisited ==
  /\ Dispatching
  /\ dispatched' = IF Idle THEN 0 ELSE dispatched + 1
  /\ fill' = [c \in Cells |-> EMPTY_COLOR]
  /\ start' = None
  /\ end' = None
  /\ outcome' = NoOutcome
  /\ UNCHANGED <<grid_size, visited_cells, stack>>

\* clear_all(): the Clear All button
ClearAll ==
  /\ Dispatching
  /\ dispatched' = IF Idle THEN 0 ELSE dispatched + 1
  /\ fill' = [c \in Cells |-> EMPTY_COLOR]
  /\ start' = None
  /\ end' = None
  /\ visited_cells' = {}
  /\ outcome' = NoOutcome
  /\ UNCHANGED <<grid_size, stack>>

\* restart_game(): the Restart buttons. The window is destroyed, __init__ runs
\* again with the same grid_size and a new mainloop starts; the invocations in flight never run again
RestartGame ==
  /\ Dispatching
  /\ dispatched' = 0
  /\ fill' = [c \in Cells |-> EMPTY_COLOR]
  /\ start' = None
  /\ end' = None
  /\ visited_cells' = {}
  /\ stack' = <<>>
  /\ outcome' = NoOutcome
  /\ UNCHANGED grid_size

\* find_shortest_path(event), up to its loop: <Return>
FindShortestPath ==
  /\ Dispatching
  /\ Dispatched
  /\ Len(stack) < MaxDepth
  /\ IF MissingEndpoint
       THEN /\ outcome' = [NoOutcome EXCEPT !.events = <<"missing">>]
            /\ UNCHANGED stack
       ELSE /\ stack' = Append(stack, NewFrame)
            /\ UNCHANGED outcome
  /\ UNCHANGED <<grid_size, fill, start, end, visited_cells>>

(* ---------------- the steps of a search ---------------- *)

\* the invocation with frame fr returns (or raises) to its caller
Return(fr) ==
  /\ stack' = SubSeq(stack, 1, Len(stack) - 1)
  /\ outcome' = OutcomeOf(fr)

\* one pass from "while not open_set.empty()" to window.update(): the frontier is
\* exhausted (no path), or an entry is popped and is stale, or it is popped,
\* finalized and shown as visited
Pop ==
  /\ ~Idle
  /\ Top.pc = "loop"
  /\ IF Top.open_set = <<>>
       THEN /\ Return([Top EXCEPT !.events = Append(@, "nopath"), !.pc = "return"])
            /\ UNCHANGED <<fill, visited_cells>>
       ELSE LET e    == Head(Top.open_set)
                cell == <<e[2], e[3]>>
            IN  IF Stale(Top, cell)
                  THEN /\ stack' = SetTop([Top EXCEPT !.open_set = Tail(@),
                                                      !.discarded = Append(@, cell)])
                       /\ UNCHANGED <<fill, visited_cells, outcome>>
                  ELSE /\ stack' = SetTop([Top EXCEPT !.open_set = Tail(@),
                                                      !.row = e[2],
                                                      !.col = e[3],
                                                      !.path = e[4],
                                                      !.visited = @ \cup {cell},
                                                      !.trace = Append(@, cell),
                                                      !.f_trace = Append(@, e[1]),
                                                      !.pc = "update"])
                       /\ visited_cells' = visited_cells \cup {cell}
                       /\ fill' = IF Recolourable(cell)
                                    THEN [fill EXCEPT ![cell] = VISITED_COLOR]
                                    ELSE fill
                       /\ UNCHANGED outcome
  /\ UNCHANGED <<grid_size, start, end, dispatched>>

\* from the return of window.update() to the end of the loop body: the path is
\* coloured and the search returns, or the neighbours of the popped cell are relaxed
Expand ==
  /\ ~Idle
  /\ Top.pc = "update"
  /\ LET cell == <<Top.row, Top.col>>
         fr   == IF AtEnd(cell)
                   THEN PathFound(Top)
                   ELSE RelaxAll(Top, Neighbors(Top.row, Top.col))
     IN  /\ fill' = IF AtEnd(cell) THEN ColourPath(Top.path) ELSE fill
         /\ IF fr.pc \in {"return", "raise"}
              THEN Return(fr)
              ELSE /\ stack' = SetTop([fr EXCEPT !.pc = "loop"])
                   /\ UNCHANGED outcome
  /\ UNCHANGED <<grid_size, start, end, visited_cells, dispatched>>

(* ---------------- specifications ---------------- *)

\* the program: handlers run from mainloop() and from window.update()
Next ==
  \/ AddObstacle
  \/ SetStartOrEnd
  \/ ClearAll
  \/ RestartGame
  \/ FindShortestPath
  \/ Pop
  \/ Expand

Spec == Init /\ [][Next]_vars

\* the handlers when no search is in flight
IdleAddObstacle == Idle /\ AddObstacle
IdleSetStartOrEnd == Idle /\ SetStartOrEnd
IdleClearAll == Idle /\ ClearAll
IdleRestartGame == Idle /\ RestartGame
IdleFindShortestPath == Idle /\ FindShortestPath

\* the program when no event arrives while a search runs: every search runs on
\* a fixed grid
NextFixed ==
  \/ IdleAddObstacle
  \/ IdleSetStartOrEnd
  \/ IdleClearAll
  \/ IdleRestartGame
  \/ IdleFindShortestPath
  \/ Pop
  \/ Expand

SpecFixed == Init /\ [][NextFixed]_vars

\* the same program on the wider grid
SpecWider == InitWider /\ [][NextFixed]_vars

(* ---------------- reference notions for the properties ---------------- *)

Adjacent(a, b) == Abs(a[1] - b[1]) + Abs(a[2] - b[2]) = 1

\* the distance to a cell that cannot be reached: larger than every distance
Unreachable == grid_size * grid_size + 1

\* breadth-first search by levels over the cells that are not obstacles
RECURSIVE BfsLevels(_, _, _, _)
BfsLevels(frontier, seen, goal, d) ==
  IF goal \in frontier THEN d
  ELSE IF frontier = {} THEN Unreachable
  ELSE LET next == {c \in (Cells \ seen) \ Obstacles : \E f \in frontier : Adjacent(f, c)}
       IN  BfsLevels(next, seen \cup next, goal, d + 1)

\* the 4-connected distance from a to b through non-obstacle cells
Distance(a, b) == BfsLevels({a}, {a}, b, 0)

BothSet == start # None /\ end # None

Found == outcome.events = <<"found">>

NoPath == outcome.events = <<"nopath">>

CellsOf(path) == {path[i] : i \in 1 .. Len(path)}

(* ---------------- properties ---------------- *)

\* C1: the path a search reports on reaching end has as many cells (start excluded,
\* end included) as the breadth-first distance from start to end
C1_ShortestPath ==
  Found => BothSet /\ Len(outcome.path) = Distance(start, end)

\* a search found a path that is longer than the Manhattan distance (a detour
\* around obstacles)
C1_Witness ==
  Found /\ BothSet /\ Len(outcome.path) > heuristic(start, end)

\* C2: a search ends in the no-path outcome exactly when end is not reachable from
\* start, and while end is unreachable no path is found and no cell is path-coloured
C2_NoPathIffUnreachable ==
  /\ (Found \/ NoPath) =>
       BothSet /\ (NoPath <=> Distance(start, end) = Unreachable)
  /\ (BothSet /\ Distance(start, end) = Unreachable) =>
       /\ ~Found
       /\ \A c \in Cells : fill[c] # PATH_COLOR
       /\ \A i \in 1 .. Len(stack) : stack[i].events = <<>>

\* a search ended with no path, its end walled off by obstacles
C2_Witness ==
  NoPath /\ BothSet /\ Distance(start, end) = Unreachable /\ Obstacles # {}

\* C3: a found path is a walk of 4-adjacent, in-bounds, non-obstacle cells from a
\* neighbour of start to end that does not contain start
C3_ValidWalk ==
  Found =>
    LET path == outcome.path
    IN  /\ BothSet
        /\ \A i \in 1 .. Len(path) : path[i] \in Cells /\ path[i] \notin Obstacles
        /\ \A i \in 1 .. Len(path) - 1 : Adjacent(path[i], path[i + 1])
        /\ start \notin CellsOf(path)
        /\ IF path = <<>>
             THEN start = end
             ELSE Adjacent(start, path[1]) /\ path[Len(path)] = end

\* a path of at least three cells was found on a grid with obstacles
C3_Witness ==
  Found /\ Len(outcome.path) >= 3 /\ Obstacles # {}

\* the program with the fairness of its control flow: the loop of a search is
\* straight-line code that goes on whenever it can
LiveSpecFixed == SpecFixed /\ WF_vars(Pop) /\ WF_vars(Expand)

\* C4: a search on a fixed grid returns after finitely many pops, with exactly one
\* terminal outcome (path found or no path), and does nothing after that outcome
C4_TerminatesWithOneOutcome ==
  /\ [](\A i \in 1 .. Len(stack) : stack[i].events = <<>>)
  /\ [][(~Idle /\ Idle') => outcome'.events \in {<<"found">>, <<"nopath">>}]_vars
  /\ (~Idle ~> Idle)

\* a search returned after it finalized at least four cells
C4_Witness ==
  Idle /\ (Found \/ NoPath) /\ Len(outcome.trace) >= 4

\* C5: find_shortest_path invoked with start or end unset only reports the missing
\* endpoint: no frame is created, no colour, visited_cells, start or end changes
C5_MissingEndpointFails ==
  [][(FindShortestPath /\ (start = None \/ end = None)) =>
       /\ UNCHANGED <<fill, start, end, visited_cells, stack>>
       /\ outcome'.events = <<"missing">>]_vars

\* the search was invoked with start set and end unset
C5_Witness ==
  outcome.events = <<"missing">> /\ start # None /\ end = None

\* C6: with start and end on the same cell a search pops the start cell and
\* reports an empty path: nothing is pushed, no cell is visited- or path-coloured
\* and the no-path outcome does not occur
C6_SameCellEmptyPath ==
  (BothSet /\ start = end) =>
    /\ outcome.events \in {<<>>, <<"found">>}
    /\ Found => outcome.path = <<>> /\ outcome.trace = <<start>>
    /\ \A c \in Cells : fill[c] \notin {VISITED_COLOR, PATH_COLOR}
    /\ \A i \in 1 .. Len(stack) :
         /\ stack[i].trace \in {<<>>, <<start>>}
         /\ stack[i].open_set \in {<<>>, <<<<0, start[1], start[2], <<>>>>>>}

\* the search found the empty path on a cell whose neighbours are all obstacles
C6_Witness ==
  /\ Found
  /\ BothSet
  /\ start = end
  /\ \A c \in Cells : Adjacent(c, start) => c \in Obstacles

\* C7: a search on the obstacles, start and end of the search before it (on a grid
\* that search has coloured) finalizes the same cells in the same order and ends
\* with the same outcome and path
C7_Deterministic ==
  [][(~Idle /\ Idle' /\ (Found \/ NoPath)) => outcome' = outcome]_vars

\* a second search is under way on the grid the first one left, with its visited
\* and path colours, and has finalized two cells as the first one did
C7_Witness ==
  /\ ~Idle
  /\ Found
  /\ Len(Top.trace) >= 2
  /\ Top.trace = SubSeq(outcome.trace, 1, Len(Top.trace))
  /\ \E c \in Cells : fill[c] = PATH_COLOR
  /\ \E c \in Cells : fill[c] = VISITED_COLOR

\* C8: at most one invocation of find_shortest_path is in flight
C8_AtMostOneSearch == Len(stack) <= 1

\* C9: while a search is in flight the obstacles, start and end do not change
C9_GridFixedDuringSearch ==
  [][(~Idle /\ ~Idle') =>
       (Obstacles' = Obstacles /\ start' = start /\ end' = end)]_vars

\* C10: no step of a search changes which cells are obstacles, nor start or end
C10_SearchKeepsGrid ==
  [][(Pop \/ Expand) =>
       (Obstacles' = Obstacles /\ start' = start /\ end' = end)]_vars

\* C11: after clear_all, from whatever state it runs in (a search in flight
\* included), every cell is Empty-coloured, start and end are unset, visited_cells
\* is empty, and the grid has the size and the cells it had
C11_ClearAllResets ==
  [][ClearAll =>
       /\ \A c \in Cells : fill'[c] = EMPTY_COLOR
       /\ start' = None
       /\ end' = None
       /\ visited_cells' = {}
       /\ grid_size' = grid_size
       /\ DOMAIN fill' = DOMAIN fill]_vars

\* Clear All was pressed while a search that had finalized two cells was
\* animating: the grid is blank and the endpoints are unset under the search
C11_Witness ==
  /\ ~Idle
  /\ Top.pc = "update"
  /\ Len(Top.trace) >= 2
  /\ start = None
  /\ end = None
  /\ visited_cells = {}
  /\ \A c \in Cells : fill[c] = EMPTY_COLOR

\* C12: the cell designated start and the cell designated end are never
\* Obstacle-coloured, and a cell that is an obstacle when it becomes start or end
\* stops being one in that step
C12_EndpointsNotObstacle ==
  /\ [](/\ start # None => fill[start] # OBSTACLE_COLOR
        /\ end # None => fill[end] # OBSTACLE_COLOR)
  /\ [][\A c \in Cells :
         (fill[c] = OBSTACLE_COLOR /\ ((start # c /\ start' = c) \/ (end # c /\ end' = c)))
           => fill'[c] \in {START_COLOR, END_COLOR}]_vars

\* start and end are set on a grid that holds as many obstacles as the model
\* paints, after a search ran on it
C12_Witness ==
  /\ BothSet
  /\ start # end
  /\ fill[start] = START_COLOR
  /\ fill[end] = END_COLOR
  /\ Cardinality(Obstacles) = MaxObstacles
  /\ visited_cells # {}

\* the cells shown in a colour
Shown(colour) == {c \in Cells : fill[c] = colour}

\* C13: only the cell designated start is shown as Start and only the cell
\* designated end as End, so never two of either; the designated cells are shown
\* so (one cell that is both is shown as End); set_start_or_end assigns start while
\* start is unset, else end while end is unset, else changes nothing; and a
\* designation changes only by being cleared together with every colour
C13_OneStartOneEnd ==
  /\ [](/\ Shown(START_COLOR) \subseteq {start}
        /\ Shown(END_COLOR) \subseteq {end}
        /\ start = None => end = None
        /\ end # None => Shown(END_COLOR) = {end}
        /\ (start # None /\ start # end) => Shown(START_COLOR) = {start})
  /\ [][SetStartOrEnd =>
         IF start = None
           THEN /\ end' = end
                /\ \/ UNCHANGED <<start, fill>>
                   \/ start' \in Cells /\ fill' = [fill EXCEPT ![start'] = START_COLOR]
         ELSE IF end = None
           THEN /\ start' = start
                /\ \/ UNCHANGED <<end, fill>>
                   \/ end' \in Cells /\ fill' = [fill EXCEPT ![end'] = END_COLOR]
         ELSE UNCHANGED <<start, end, fill>>]_vars
  /\ [][((start # None /\ start' # start) \/ (end # None /\ end' # end)) =>
         /\ start' = None
         /\ end' = None
         /\ \A c \in Cells : fill'[c] = EMPTY_COLOR]_vars

\* after start and end were assigned to two cells and a search coloured visited
\* and path cells, exactly one cell is shown as Start and one as End
C13_Witness ==
  /\ BothSet
  /\ start # end
  /\ Shown(START_COLOR) = {start}
  /\ Shown(END_COLOR) = {end}
  /\ Shown(PATH_COLOR) # {}
  /\ Shown(VISITED_COLOR) # {}

\* g-score plus Manhattan distance to end of the i-th cell a search finalized
FScore(fr, i) ==
  fr.g_score[fr.trace[i]] + Abs(fr.trace[i][1] - end[1]) + Abs(fr.trace[i][2] - end[2])

\* C14: in every search the f = g + Manhattan distance to end of the finalized
\* cells, in the order in which they were finalized, never decreases; it is the
\* key of the popped entry for every cell but start, whose entry is put with key 0,
\* so the keys of the popped entries never decrease either
C14_NonDecreasingF ==
  \A k \in 1 .. Len(stack) :
    LET fr == stack[k]
    IN  /\ Len(fr.f_trace) = Len(fr.trace)
        /\ \A i, j \in 1 .. Len(fr.trace) :
             i < j => (FScore(fr, i) <= FScore(fr, j) /\ fr.f_trace[i] <= fr.f_trace[j])
        /\ \A i \in 1 .. Len(fr.trace) :
             fr.f_trace[i] = IF i = 1 THEN 0 ELSE FScore(fr, i)

\* a search has finalized five cells or more, some in a row with the same f and
\* the last with a larger f than the first
C14_Witness ==
  /\ ~Idle
  /\ Len(Top.f_trace) >= 5
  /\ Top.f_trace[1] < Top.f_trace[Len(Top.f_trace)]
  /\ \E i \in 1 .. Len(Top.f_trace) - 1 : Top.f_trace[i] = Top.f_trace[i + 1]

\* the next entry of the queue of the innermost search is for a cell that the
\* search has finalized
HeadIsStale ==
  /\ ~Idle
  /\ Top.pc = "loop"
  /\ Top.open_set # <<>>
  /\ <<Head(Top.open_set)[2], Head(Top.open_set)[3]>> \in Top.visited

\* C15: a search finalizes no cell twice (the finalized cells are the set
\* visited), and the pop of an entry for a finalized cell only removes the entry:
\* no colour, visited, visited_cells, g-score or path changes and nothing is pushed
C15_FinalizedOnce ==
  /\ [](\A k \in 1 .. Len(stack) :
          /\ \A i, j \in 1 .. Len(stack[k].trace) :
               i # j => stack[k].trace[i] # stack[k].trace[j]
          /\ CellsOf(stack[k].trace) = stack[k].visited)
  /\ [][(HeadIsStale /\ Pop) =>
         /\ UNCHANGED <<fill, visited_cells, start, end, outcome>>
         /\ stack' = SetTop([Top EXCEPT !.open_set = Tail(@),
                                         !.discarded = Append(@, <<Head(Top.open_set)[2],
                                                                   Head(Top.open_set)[3]>>)])]_vars

\* a search has discarded an entry for a cell it had finalized and gone on
C15_Witness ==
  /\ ~Idle
  /\ Top.discarded # <<>>
  /\ Top.discarded[1] \in Top.visited
  /\ Len(Top.trace) >= 4

\* C16: the g-score of a finalized cell is the 4-connected distance from start to
\* the cell through non-obstacle cells, the path of the entry popped for it has
\* that many cells, and no step of a search raises the g-score of a cell
C16_GScoreOptimal ==
  /\ [](\A k \in 1 .. Len(stack) :
          /\ \A c \in stack[k].visited : stack[k].g_score[c] = Distance(start, c)
          /\ stack[k].pc = "update" =>
               Len(stack[k].path) = stack[k].g_score[<<stack[k].row, stack[k].col>>])
  /\ [][(~Idle /\ ~Idle') =>
         \A c \in DOMAIN Top.g_score :
           c \in DOMAIN Top'.g_score /\ Top'.g_score[c] <= Top.g_score[c]]_vars

\* a search lowered the g-score of a cell (it pushed two entries for it) and
\* finalized a cell that lies farther from start than its Manhattan distance
C16_Witness ==
  /\ ~Idle
  /\ \E i, j \in 1 .. Len(Top.pushed) :
       /\ i < j
       /\ Top.pushed[i][2] = Top.pushed[j][2]
       /\ Top.pushed[i][3] = Top.pushed[j][3]
       /\ Len(Top.pushed[j][4]) < Len(Top.pushed[i][4])
  /\ \E c \in Top.visited : Top.g_score[c] > heuristic(start, c)

\* the position of entry e among the puts of the search with frame fr
PushIndex(fr, e) == CHOOSE i \in 1 .. Len(fr.pushed) : fr.pushed[i] = e

\* C17 as claimed: of the queued entries with the f of the entry that get()
\* returns next, that entry is the one that was put first
C17_FifoAmongEqualF ==
  \A k \in 1 .. Len(stack) :
    LET q == stack[k].open_set
    IN  \A i \in 2 .. Len(q) :
          q[i][1] = q[1][1] => PushIndex(stack[k], q[1]) < PushIndex(stack[k], q[i])

\* C17 as amended: get() returns the queued entries in increasing f and, among
\* entries of equal f, in increasing (row, col), whatever the order of the puts
C17_CoordinateOrderAmongEqualF ==
  \A k \in 1 .. Len(stack) :
    LET q == stack[k].open_set
    IN  \A i, j \in 1 .. Len(q) :
          i < j =>
            \/ q[i][1] < q[j][1]
            \/ q[i][1] = q[j][1] /\ q[i][2] < q[j][2]
            \/ q[i][1] = q[j][1] /\ q[i][2] = q[j][2] /\ q[i][3] < q[j][3]

\* the entry that get() returns next was put after a queued entry of the same f
\* that lies in a later row
C17_Witness ==
  /\ ~Idle
  /\ Top.pc = "loop"
  /\ \E i \in 2 .. Len(Top.open_set) :
       /\ Top.open_set[i][1] = Top.open_set[1][1]
       /\ Top.open_set[1][2] < Top.open_set[i][2]
       /\ PushIndex(Top, Top.open_set[i]) < PushIndex(Top, Top.open_set[1])

\* C18: no step of a search changes the colour of the start cell or of the end
\* cell, and at all times the end cell is End-coloured and the start cell, unless
\* it is the end cell too, Start-coloured
C18_EndpointsKeepColour ==
  /\ [](/\ end # None => fill[end] = END_COLOR
        /\ (start # None /\ start # end) => fill[start] = START_COLOR)
  /\ [][(Pop \/ Expand) =>
         \A c \in Cells : (c = start \/ c = end) => fill'[c] = fill[c]]_vars

\* a search popped start and end, added both to visited_cells, coloured visited
\* and path cells, and start and end still show their colours
C18_Witness ==
  /\ Idle
  /\ Found
  /\ start # end
  /\ start \in visited_cells
  /\ end \in visited_cells
  /\ start \in CellsOf(outcome.trace)
  /\ end \in CellsOf(outcome.trace)
  /\ end \in CellsOf(outcome.path)
  /\ fill[start] = START_COLOR
  /\ fill[end] = END_COLOR
  /\ \E c \in Cells : fill[c] = PATH_COLOR
  /\ \E c \in Cells : fill[c] = VISITED_COLOR

\* C19: no cell of visited_cells is Obstacle-coloured, and add_obstacle changes
\* the colour of no cell that is start, end or in visited_cells
C19_VisitedNeverObstacle ==
  /\ [](\A c \in visited_cells : fill[c] # OBSTACLE_COLOR)
  /\ [][AddObstacle =>
         \A c \in Cells :
           (c = start \/ c = end \/ c \in visited_cells) => fill'[c] = fill[c]]_vars

\* a search has completed on a grid with obstacles: the cells it expanded and the
\* path it found are in visited_cells and none of them is an obstacle
C19_Witness ==
  /\ Idle
  /\ Found
  /\ Cardinality(Obstacles) = MaxObstacles
  /\ CellsOf(outcome.trace) \cup CellsOf(outcome.path) \subseteq visited_cells
  /\ Cardinality(visited_cells) >= 4
  /\ \E c \in Cells : fill[c] = PATH_COLOR

\* the position of a cell in the order in which a search finalized cells
TraceIndex(trace, c) == CHOOSE i \in 1 .. Len(trace) : trace[i] = c

\* C20: when a search has returned with a path, the path-coloured cells are the
\* cells of that path other than start and end, the search finalized every cell
\* of the path, in the order of the path, and every other cell it finalized,
\* start and end aside, is visited-coloured
C20_PathColouring ==
  (Idle /\ Found) =>
    LET path  == outcome.path
        trace == outcome.trace
    IN  /\ Shown(PATH_COLOR) = CellsOf(path) \ {start, end}
        /\ CellsOf(path) \subseteq CellsOf(trace)
        /\ \A i, j \in 1 .. Len(path) :
             i < j => TraceIndex(trace, path[i]) < TraceIndex(trace, path[j])
        /\ \A c \in (CellsOf(trace) \ CellsOf(path)) \ {start, end} :
             fill[c] = VISITED_COLOR

\* a search returned a path of four cells or more that bends round an obstacle,
\* and finalized cells that are not on it
C20_Witness ==
  /\ Idle
  /\ Found
  /\ Len(outcome.path) >= 4
  /\ Len(outcome.path) > heuristic(start, end)
  /\ Cardinality(Shown(PATH_COLOR)) = Len(outcome.path) - 1
  /\ Shown(VISITED_COLOR) # {}

====
